---- MODULE Spec2Model ----
(***************************************************************************)
(* The prescription annotation canvas of infisparks/gautami, as a state    *)
(* machine.  The repository holds several revisions of the same React      *)
(* component (PrescriptionCanvas); the variable rev says which one runs:   *)
(*                                                                         *)
(*   "layers"  src/unnamed/part_004            two canvas layers, stroke   *)
(*             history (actions / current / redos), pinch zoom, buttons    *)
(*   "dialog"  src/unnamed/part_003:571-1371   dialog, stroke history,     *)
(*             keyboard shortcuts, zoom buttons, Move toggle               *)
(*   "wheel"   src/components/prescription-canvas.tsx   one canvas under a *)
(*             CSS transform, wheel zoom, pinch zoom, pan tool             *)
(*   "pinch"   src/unnamed/part_003:1-570      one canvas under a CSS      *)
(*             transform, two-finger pan/zoom only                         *)
(*                                                                         *)
(* st is the component's React state and refs.  A handler is an operator   *)
(* from the state it was rendered with to the state after its setState     *)
(* calls; React re-renders between two events, so every handler reads the  *)
(* state left by the previous one.  Numbers the code keeps as floats are   *)
(* exact rationals <<n, d>> here.                                          *)
(***************************************************************************)
EXTENDS Integers, Sequences, FiniteSets, TLC

VARIABLES rev, st, env, ev, g

vars == <<rev, st, env, ev, g>>

-----------------------------------------------------------------------------
(* Bounds of the model *)

\* strokes a history may hold (committed + redo)
MaxStrokes == 2
\* points one gesture may deliver
MaxPoints == 2
\* pointer-down events in one run
MaxDowns == 2
\* pointer-move events in one run
MaxMoves == 2
\* tool, colour, width and cap changes in one run
MaxSettings == 1
\* undo, redo and clear commands in one run
MaxHistoryOps == 3
\* zoom, pan, resize and save commands in one run
MaxViewOps == 2
\* pointer-down events in a run of view commands
MaxViewDowns == 1
\* pointer-move events in a run of view commands
MaxViewMoves == 1
\* strokes in a run of view commands
MaxViewStrokes == 1
\* simultaneous touch points
MaxTouches == 3

-----------------------------------------------------------------------------
(* Exact rational arithmetic: <<n, d>> with d > 0, in lowest terms *)

Abs(i) == IF i < 0 THEN -i ELSE i

RECURSIVE GCD(_, _)
GCD(a, b) == IF b = 0 THEN a ELSE GCD(b, a % b)

RNorm(n, d) ==
  LET sg == IF d < 0 THEN -1 ELSE 1
      k  == GCD(Abs(n), Abs(d))
  IN  <<(sg * n) \div k, (sg * d) \div k>>

R(i) == <<i, 1>>
RAdd(a, b) == RNorm(a[1] * b[2] + b[1] * a[2], a[2] * b[2])
RSub(a, b) == RNorm(a[1] * b[2] - b[1] * a[2], a[2] * b[2])
RMul(a, b) == RNorm(a[1] * b[1], a[2] * b[2])
RDiv(a, b) == RNorm(a[1] * b[2], a[2] * b[1])
RLt(a, b) == a[1] * b[2] < b[1] * a[2]
RLe(a, b) == a[1] * b[2] <= b[1] * a[2]
RAbs(a) == <<Abs(a[1]), a[2]>>
\* Math.min / Math.max
RMin(a, b) == IF RLe(a, b) THEN a ELSE b
RMax(a, b) == IF RLe(a, b) THEN b ELSE a

\* a point {x, y}
Pt(x, y) == [x |-> x, y |-> y]
PInt(i, j) == Pt(R(i), R(j))
PAdd(p, q) == Pt(RAdd(p.x, q.x), RAdd(p.y, q.y))
PSub(p, q) == Pt(RSub(p.x, q.x), RSub(p.y, q.y))

\* an optional value: null is <<>>, a value v is <<v>>
Null == <<>>
Some(v) == <<v>>

Last(s) == s[Len(s)]
ButLast(s) == SubSeq(s, 1, Len(s) - 1)

-----------------------------------------------------------------------------
(* Inputs: pointer positions relative to the canvas element, two-finger    *)
(* configurations (midpoint, distance), container sizes                    *)

\* positions a pointer may take: (10,10), (50,50), ...
NPos == 2
VPoints == { PInt(10 + 40 * i, 10 + 40 * i) : i \in 0 .. (NPos - 1) }

\* two fingers: their midpoint and distance (Math.hypot of the two touches)
TwoTouches ==
  { [m |-> PInt(120, 120), d |-> R(40)], [m |-> PInt(120, 120), d |-> R(240)],
    [m |-> PInt(160, 160), d |-> R(40)] }

Colors == {"#000000", "#FF0000"}
Widths == {2, 3}
PenStyles == {"round", "square"}

\* container client sizes (wrap.clientWidth, wrap.clientHeight)
Containers == { [w |-> 400, h |-> 700], [w |-> 800, h |-> 1100] }

-----------------------------------------------------------------------------
(* Revision "layers": src/unnamed/part_004 *)

MinZoom == <<1, 2>>
MaxZoom == R(3)
ZoomStep == <<1, 10>>
PinchIn == <<102, 100>>
PinchOut == <<98, 100>>

\* variant: no upper limit
ClampZoomLow(z) == RMax(z, MinZoom)

\* Math.min(Math.max(z, 0.5), 3)
ClampZoom(z) == RMin(RMax(z, MinZoom), MaxZoom)

\* toCanvas: screen coordinates to canvas coordinates
toCanvas(s, p) == Pt(RDiv(RSub(p.x, s.pan.x), s.zoom), RDiv(RSub(p.y, s.pan.y), s.zoom))

\* ctx.setTransform(zoom, 0, 0, zoom, pan.x, pan.y): where a stored point is painted
toScreen(s, l) == Pt(RAdd(RMul(l.x, s.zoom), s.pan.x), RAdd(RMul(l.y, s.zoom), s.pan.y))

\* redrawStrokes: the ink layer is cleared and the actions are painted under
\* the transform; painted records the strokes the layer shows and the
\* transform they were painted under
redrawStrokes(s) == [strokes |-> s.actions, zoom |-> s.zoom, pan |-> s.pan]

\* drawLetterhead as the effects and resize call it: the background canvas
\* has just been reset, and a new Image starts to load whose onload paints
\* under l, the zoom and pan of the render the callback belongs to; loads is
\* the set of such paints still to come (loads of the same zoom and pan are
\* not told apart), bgAt the zoom and pan the background is painted under
drawLetterhead(s, l) == [s EXCEPT !.bgAt = Null, !.loads = @ \cup {l}]

\* the DrawAction startDraw builds from the tool state
NewStroke(t, c, w, cap, p) ==
  [ tool      |-> t,
    points    |-> <<p>>,
    color     |-> IF t = "eraser" THEN "#fff" ELSE c,
    lineWidth |-> IF t = "eraser" THEN w * 2 ELSE w,
    penStyle  |-> cap ]

startDraw(s, p) ==
  IF s.tool = "move" THEN [s EXCEPT !.lastMouse = p]
  ELSE IF ~s.bgReady THEN s
  ELSE [s EXCEPT !.isDrawing = TRUE,
                 !.current = Some(NewStroke(s.tool, s.color, s.lineWidth, s.penStyle, toCanvas(s, p))),
                 !.redos = <<>>, !.liveInk = <<>>]

\* variant: a move restyles the stroke in progress from the current tool state
moveDrawRestyles(s, p) ==
  IF s.tool = "move" /\ ~s.isDrawing
  THEN [s EXCEPT !.pan = PAdd(s.pan, PSub(p, s.lastMouse)), !.lastMouse = p]
  ELSE IF ~s.isDrawing \/ s.current = Null THEN s
  ELSE [s EXCEPT !.current = Some([s.current[1] EXCEPT !.points = Append(@, toCanvas(s, p)),
                                                        !.color = s.color, !.lineWidth = s.lineWidth,
                                                        !.penStyle = s.penStyle]),
                 !.liveInk = Append(@, toCanvas(s, p))]

moveDraw(s, p) ==
  IF s.tool = "move" /\ ~s.isDrawing
  THEN [s EXCEPT !.pan = PAdd(s.pan, PSub(p, s.lastMouse)), !.lastMouse = p]
  ELSE IF ~s.isDrawing \/ s.current = Null THEN s
  ELSE [s EXCEPT !.current = Some([s.current[1] EXCEPT !.points = Append(@, toCanvas(s, p))]),
                 !.liveInk = Append(@, toCanvas(s, p))]

\* variant: a stroke of one point is kept
KeepsAny(stroke) == Len(stroke.points) > 0

\* endDraw keeps a stroke of more than one point
Keeps(stroke) == Len(stroke.points) > 1

endDraw(s) ==
  IF ~s.isDrawing \/ s.current = Null THEN s
  ELSE [s EXCEPT !.isDrawing = FALSE,
                 !.actions = IF Keeps(s.current[1]) THEN Append(@, s.current[1]) ELSE @,
                 !.current = Null,
                 !.isTwoFingerPan = FALSE, !.liveInk = <<>>]

\* onTouchStart with one event carrying n touches; t0 is touches[0],
\* two is the (midpoint, distance) of touches[0] and touches[1]
onTouchStart(s, n, t0, two) ==
  IF n = 2
  THEN [s EXCEPT !.touchDist = Some(two.d), !.isTwoFingerPan = TRUE, !.lastMouse = two.m]
  ELSE startDraw(s, t0)

\* the zoom branch of onTouchMove: pan follows the midpoint, zoom steps by 2%
PinchZoom(s, two) ==
  LET td == s.touchDist[1]
      newZoom == ClampZoom(RMul(s.zoom, IF RLt(td, two.d) THEN PinchIn ELSE PinchOut))
  IN  IF RLt(R(5), RAbs(RSub(two.d, td))) /\ newZoom # s.zoom
      THEN [s EXCEPT !.pan = PAdd(s.pan, PSub(two.m, s.lastMouse)), !.zoom = newZoom]
      ELSE s

\* the pan branch of onTouchMove; s0 is the state the handler was rendered with
TwoFingerPan(s0, s, two) ==
  LET dlt == PSub(two.m, s0.lastMouse)
  IN  IF s0.isTwoFingerPan /\ (RLt(R(2), RAbs(dlt.x)) \/ RLt(R(2), RAbs(dlt.y)))
      THEN [s EXCEPT !.pan = PAdd(s.pan, dlt)]
      ELSE s

onTouchMove(s, n, t0, two) ==
  IF n = 2
  THEN LET a == IF s.touchDist # Null THEN TwoFingerPan(s, PinchZoom(s, two), two) ELSE s
       IN  [a EXCEPT !.touchDist = Some(two.d), !.lastMouse = two.m]
  ELSE IF ~s.isTwoFingerPan THEN moveDraw(s, t0) ELSE s

\* variant: undo drops the stroke instead of moving it to redos
undoForgets(s) ==
  IF Len(s.actions) = 0 THEN s
  ELSE [s EXCEPT !.actions = ButLast(@)]

undo(s) ==
  IF Len(s.actions) = 0 THEN s
  ELSE [s EXCEPT !.redos = Append(@, Last(s.actions)), !.actions = ButLast(@)]

\* variant: redo with nothing to redo resets the pan
redoResetsView(s) ==
  IF Len(s.redos) = 0 THEN [s EXCEPT !.pan = PInt(1, 1)]
  ELSE [s EXCEPT !.actions = Append(@, Last(s.redos)), !.redos = ButLast(@)]

redo(s) ==
  IF Len(s.redos) = 0 THEN s
  ELSE [s EXCEPT !.actions = Append(@, Last(s.redos)), !.redos = ButLast(@)]

\* variant: clear leaves the redo buffer alone
clearKeepsRedos(s, confirmed) ==
  IF confirmed THEN [s EXCEPT !.actions = <<>>, !.liveInk = <<>>, !.painted.strokes = <<>>] ELSE s

\* clearCanvas asks window.confirm first
clearCanvas(s, confirmed) ==
  IF confirmed THEN [s EXCEPT !.actions = <<>>, !.redos = <<>>, !.liveInk = <<>>, !.painted.strokes = <<>>] ELSE s

zoomIn(s) == [s EXCEPT !.zoom = RMin(RAdd(@, ZoomStep), MaxZoom)]
zoomOut(s) == [s EXCEPT !.zoom = RMax(RSub(@, ZoomStep), MinZoom)]
zoomReset(s) == [s EXCEPT !.zoom = R(1)]
panReset(s) == [s EXCEPT !.pan = PInt(0, 0)]

\* the resize effect: both canvases take the container's size
resize(s, c) ==
  drawLetterhead([s EXCEPT !.width = c.w, !.height = c.h - 100, !.liveInk = <<>>, !.painted = redrawStrokes(s)],
                 [zoom |-> s.zoom, pan |-> s.pan])

\* variant: the export takes the size the canvas is shown at
saveShown(s) == [w |-> (s.width * s.zoom[1]) \div s.zoom[2], h |-> (s.height * s.zoom[1]) \div s.zoom[2]]

\* save: the temporary canvas the two layers are drawn into
save(s) == [w |-> s.width, h |-> s.height]

\* variant: a failed encoding is swallowed and onSave is called all the same
saveSwallowsFailure(s, blob) == [st |-> s, onSave |-> TRUE, rejected |-> FALSE, notified |-> FALSE]

\* save once toBlob has called back, with a blob or with null: the promise
\* rejects with "blob fail" before mockUploadAndGetUrl and onSave; only the
\* saving flag is reset
saveSettled(s, blob) == [st |-> s, onSave |-> blob, rejected |-> ~blob, notified |-> FALSE]

InitLayers(c) ==
  [ tool |-> "pen", color |-> "#000000", lineWidth |-> 2, penStyle |-> "round",
    isDrawing |-> FALSE, bgReady |-> FALSE, zoom |-> R(1), pan |-> PInt(0, 0),
    actions |-> <<>>, current |-> Null, redos |-> <<>>,
    lastMouse |-> PInt(0, 0), touchDist |-> Null, isTwoFingerPan |-> FALSE,
    width |-> c.w, height |-> c.h - 100, liveInk |-> <<>>,
    painted |-> [strokes |-> <<>>, zoom |-> R(1), pan |-> PInt(0, 0)],
    loads |-> {}, bgAt |-> Null ]

-----------------------------------------------------------------------------
(* Revision "dialog": src/unnamed/part_003, lines 571-1371 *)

\* the DrawAction startDrawing builds from the tool state
NewAction(t, c, w, cap, p) ==
  [ tool      |-> t,
    points    |-> <<p>>,
    color     |-> IF t = "eraser" THEN "#ffffff" ELSE c,
    lineWidth |-> IF t = "eraser" THEN w * 2 ELSE w,
    penStyle  |-> cap ]

\* redrawCanvas: the drawing canvas is cleared and the actions of the render
\* the function belongs to are painted under that render's zoom and panOffset
redrawCanvas(s) == [strokes |-> s.actions, zoom |-> s.zoom, pan |-> s.panOffset]

\* drawLetterhead: the letterhead canvas is cleared and a new Image starts to
\* load whose onload paints under l, the zoom and panOffset of the render the
\* function belongs to
drawLetterheadDialog(s, l) == [s EXCEPT !.bgAt = Null, !.loads = @ \cup {l}]

\* the inverse transformation startDrawing and draw apply to the pointer
Adjusted(s, p) == Pt(RDiv(RSub(p.x, s.panOffset.x), s.zoom), RDiv(RSub(p.y, s.panOffset.y), s.zoom))

startPanning(s, p) ==
  IF ~s.letterheadLoaded THEN s
  ELSE [s EXCEPT !.isPanning = TRUE, !.lastMousePos = p]

doPanning(s, p) ==
  IF ~s.isPanning \/ ~s.letterheadLoaded THEN s
  ELSE drawLetterheadDialog([s EXCEPT !.panOffset = PAdd(@, PSub(p, s.lastMousePos)), !.lastMousePos = p,
                                      !.liveInk = <<>>, !.painted = redrawCanvas(s)],
                            [zoom |-> s.zoom, pan |-> s.panOffset])

stopPanning(s) == [s EXCEPT !.isPanning = FALSE]

startDrawing(s, p, shiftKey) ==
  IF ~s.letterheadLoaded THEN s
  ELSE IF shiftKey \/ s.isPanning THEN startPanning(s, p)
  ELSE [s EXCEPT !.isDrawing = TRUE,
                 !.currentAction = Some(NewAction(s.tool, s.color, s.lineWidth, s.penStyle, Adjusted(s, p))),
                 !.redoActions = <<>>, !.liveInk = <<>>]

draw(s, p) ==
  IF s.isPanning THEN doPanning(s, p)
  ELSE IF ~s.isDrawing \/ ~s.letterheadLoaded \/ s.currentAction = Null THEN s
  ELSE [s EXCEPT !.currentAction = Some([s.currentAction[1] EXCEPT !.points = Append(@, Adjusted(s, p))]),
                 !.liveInk = Append(@, p)]

\* stopDrawing keeps an action of more than one point
KeepsAction(a) == Len(a.points) > 1

\* the ink of the finished stroke stays on the drawing canvas: the segments
\* painted by draw since the canvas was last cleared
InkLeft(s, a) ==
  IF s.liveInk = <<>> THEN s.painted
  ELSE [s.painted EXCEPT !.strokes =
          Append(@, [a EXCEPT !.points = SubSeq(@, Len(@) - Len(s.liveInk), Len(@))])]

stopDrawing(s) ==
  IF s.isPanning THEN stopPanning(s)
  ELSE IF s.currentAction = Null THEN s
  ELSE [s EXCEPT !.isDrawing = FALSE,
                 !.actions = IF KeepsAction(s.currentAction[1]) THEN Append(@, s.currentAction[1]) ELSE @,
                 !.currentAction = Null, !.liveInk = <<>>, !.painted = InkLeft(s, s.currentAction[1])]

handleUndo(s) ==
  IF Len(s.actions) = 0 THEN s
  ELSE [s EXCEPT !.redoActions = Append(@, Last(s.actions)), !.actions = ButLast(@), !.liveInk = <<>>,
                 !.painted = redrawCanvas(s)]

handleRedo(s) ==
  IF Len(s.redoActions) = 0 THEN s
  ELSE [s EXCEPT !.actions = Append(@, Last(s.redoActions)), !.redoActions = ButLast(@), !.liveInk = <<>>,
                 !.painted = redrawCanvas(s)]

\* handleUndo of render r called while the updates of an earlier call are
\* still queued: the action it pushes is read from r.actions, the updaters
\* run on the queued state s
handleUndoAgain(r, s) ==
  IF Len(r.actions) = 0 THEN s
  ELSE [s EXCEPT !.redoActions = Append(@, Last(r.actions)),
                 !.actions = IF @ = <<>> THEN @ ELSE ButLast(@),
                 !.liveInk = <<>>, !.painted = redrawCanvas(r)]

\* handleRedo of render r called while the updates of an earlier call are
\* still queued
handleRedoAgain(r, s) ==
  IF Len(r.redoActions) = 0 THEN s
  ELSE [s EXCEPT !.actions = Append(@, Last(r.redoActions)),
                 !.redoActions = IF @ = <<>> THEN @ ELSE ButLast(@),
                 !.liveInk = <<>>, !.painted = redrawCanvas(r)]

\* clearCanvas asks window.confirm first
clearCanvasDialog(s, confirmed) ==
  IF confirmed THEN [s EXCEPT !.actions = <<>>, !.redoActions = <<>>, !.liveInk = <<>>, !.painted.strokes = <<>>]
  ELSE s

handleZoomIn(s) == [s EXCEPT !.zoom = RMin(RAdd(@, ZoomStep), MaxZoom)]
handleZoomOut(s) == [s EXCEPT !.zoom = RMax(RSub(@, ZoomStep), MinZoom)]
handleResetZoom(s) == [s EXCEPT !.zoom = R(1), !.panOffset = PInt(0, 0)]
handleResetPan(s) == [s EXCEPT !.panOffset = PInt(0, 0)]

\* the Move button
togglePanning(s) == [s EXCEPT !.isPanning = ~@]

\* updateCanvasSize: both canvases take the container's size less the chrome,
\* and the redrawCanvas of the render that registered the listener repaints:
\* sizedFor is the actions and panOffset of that render
updateCanvasSize(s, c) ==
  drawLetterheadDialog(
    [s EXCEPT !.width = c.w - 40, !.height = c.h - 200, !.liveInk = <<>>,
              !.painted = [strokes |-> s.sizedFor.actions, zoom |-> s.zoom, pan |-> s.sizedFor.panOffset]],
    [zoom |-> s.zoom, pan |-> s.sizedFor.panOffset])

InitDialog(c) ==
  [ tool |-> "pen", color |-> "#000000", lineWidth |-> 2, penStyle |-> "round",
    isDrawing |-> FALSE, isPanning |-> FALSE, letterheadLoaded |-> FALSE,
    zoom |-> R(1), panOffset |-> PInt(0, 0),
    actions |-> <<>>, currentAction |-> Null, redoActions |-> <<>>,
    lastMousePos |-> PInt(0, 0), width |-> c.w - 40, height |-> c.h - 200, liveInk |-> <<>>,
    painted |-> [strokes |-> <<>>, zoom |-> R(1), pan |-> PInt(0, 0)],
    sizedFor |-> [actions |-> <<>>, panOffset |-> PInt(0, 0)],
    loads |-> {}, bgAt |-> Null ]

-----------------------------------------------------------------------------
(* Revision "wheel": src/components/prescription-canvas.tsx.  Pointer       *)
(* positions are client coordinates; o is the layout position of the       *)
(* canvas element in the viewport, before its CSS transform.                *)

\* the ink of a finished stroke stays on the canvas bitmap: ink is the strokes
\* on the bitmap, each as the points painted, liveInk those of the stroke in
\* progress
Dried(s) == IF s.liveInk = <<>> THEN s.ink ELSE Append(s.ink, s.liveInk)

\* the reload clearCanvas starts paints the letterhead over the whole bitmap
Whole == [zoom |-> R(1), pan |-> PInt(0, 0)]

MinScaleWheel == <<1, 2>>
MaxScaleWheel == R(3)
ZoomFactor == <<11, 10>>
LogicalWidth == 800
LogicalHeight == 1100

\* canvas.getBoundingClientRect(): the CSS translate moves the element's box
RectOrigin(s, o) == PAdd(o, s.panOffset)

\* Math.max(0.5, Math.min(3, z))
ClampScaleWheel(z) == RMax(MinScaleWheel, RMin(MaxScaleWheel, z))

getLogicalCoordsWheel(s, o, c) ==
  LET v == PSub(c, RectOrigin(s, o))
  IN  Pt(RDiv(v.x, s.scale), RDiv(v.y, s.scale))

startDrawingWheel(s, c) ==
  IF ~s.letterheadLoaded THEN s
  ELSE IF s.tool = "pan" THEN [s EXCEPT !.isDrawing = TRUE, !.lastPanPosition = c]
  ELSE [s EXCEPT !.isDrawing = TRUE, !.ink = Dried(s), !.liveInk = <<>>]

\* drawOnCanvas(x, y, true): lineTo and stroke on the canvas bitmap
drawOnCanvas(s, l) == [s EXCEPT !.liveInk = Append(@, l)]

drawWheel(s, o, c) ==
  IF ~s.isDrawing \/ ~s.letterheadLoaded THEN s
  ELSE IF s.tool = "pan"
  THEN [s EXCEPT !.panOffset = PAdd(@, PSub(c, s.lastPanPosition)), !.lastPanPosition = c]
  ELSE drawOnCanvas(s, getLogicalCoordsWheel(s, o, c))

stopDrawingWheel(s) ==
  [s EXCEPT !.isDrawing = FALSE, !.lastPanPosition = PInt(0, 0),
            !.initialPinchDistance = Null, !.initialPinchLogicalMidpoint = Null, !.ink = Dried(s), !.liveInk = <<>>]

\* the pan offset handleWheel and the pinch branch compute for the anchor c
AnchorPan(c, l, newScale) == Pt(RSub(c.x, RMul(l.x, newScale)), RSub(c.y, RMul(l.y, newScale)))

\* magnify: deltaY <= 0
handleWheel(s, o, c, magnify) ==
  LET delta == IF magnify THEN ZoomFactor ELSE RDiv(R(1), ZoomFactor)
      l == getLogicalCoordsWheel(s, o, c)
      newScale == ClampScaleWheel(RMul(s.scale, delta))
  IN  [s EXCEPT !.scale = newScale, !.panOffset = AnchorPan(c, l, newScale)]

handleTouchStartWheel(s, o, n, t0, two) ==
  IF ~s.letterheadLoaded THEN s
  ELSE IF n = 1 THEN [s EXCEPT !.isDrawing = TRUE, !.lastPanPosition = t0, !.ink = Dried(s), !.liveInk = <<>>]
  ELSE IF n = 2
  THEN [s EXCEPT !.isDrawing = FALSE, !.initialPinchDistance = Some(two.d),
                 !.initialPinchLogicalMidpoint = Some(getLogicalCoordsWheel(s, o, two.m)),
                 !.lastPanPosition = two.m, !.ink = Dried(s), !.liveInk = <<>>]
  ELSE s

handleTouchMoveWheel(s, o, n, t0, two) ==
  IF ~s.letterheadLoaded THEN s
  ELSE IF n = 1 /\ s.tool \in {"pen", "eraser"} /\ s.isDrawing
  THEN drawOnCanvas(s, getLogicalCoordsWheel(s, o, t0))
  ELSE IF n = 1 /\ s.tool = "pan" /\ s.isDrawing
  THEN [s EXCEPT !.panOffset = PAdd(@, PSub(t0, s.lastPanPosition)), !.lastPanPosition = t0]
  ELSE IF n = 2
  THEN IF s.initialPinchDistance = Null \/ s.initialPinchLogicalMidpoint = Null THEN s
       ELSE LET newScale == ClampScaleWheel(RMul(s.scale, RDiv(two.d, s.initialPinchDistance[1])))
            IN  [s EXCEPT !.scale = newScale,
                          !.panOffset = AnchorPan(two.m, s.initialPinchLogicalMidpoint[1], newScale),
                          !.initialPinchDistance = Some(two.d)]
  ELSE s

\* n touches remain; t0 is the first of them
handleTouchEndWheel(s, n, t0) ==
  IF n = 0 THEN stopDrawingWheel(s)
  ELSE [s EXCEPT !.isDrawing = (n = 1 /\ s.tool = "pan"),
                 !.lastPanPosition = IF n = 1 THEN t0 ELSE PInt(0, 0),
                 !.initialPinchDistance = Null, !.initialPinchLogicalMidpoint = Null,
                 !.ink = Dried(s), !.liveInk = <<>>]

\* clearCanvas asks window.confirm first; loads: the reloads still to come
clearCanvasWheel(s, confirmed) ==
  IF confirmed
  THEN [s EXCEPT !.scale = R(1), !.panOffset = PInt(0, 0), !.liveInk = <<>>, !.ink = <<>>,
                 !.loads = @ \cup {Whole}]
  ELSE s

\* handleSaveClick: canvas.toBlob encodes the canvas bitmap
handleSaveClick(s) == [w |-> s.width, h |-> s.height]

InitWheel ==
  [ tool |-> "pen", color |-> "#000000", lineWidth |-> 2,
    isDrawing |-> FALSE, letterheadLoaded |-> FALSE, scale |-> R(1), panOffset |-> PInt(0, 0),
    lastPanPosition |-> PInt(0, 0), initialPinchDistance |-> Null,
    initialPinchLogicalMidpoint |-> Null, width |-> LogicalWidth, height |-> LogicalHeight,
    liveInk |-> <<>>, ink |-> <<>>, loads |-> {} ]

-----------------------------------------------------------------------------
(* Revision "pinch": src/unnamed/part_003, lines 1-570 *)

minScale == <<3, 10>>
maxScale == R(5)
logicalCanvasWidth == 800
logicalCanvasHeight == 1100

\* Math.max(minScale, Math.min(maxScale, z))
ClampScalePinch(z) == RMax(minScale, RMin(maxScale, z))

\* getLogicalCoords: the position relative to the transformed box, less the pan
getLogicalCoordsPinch(s, o, c) ==
  LET v == PSub(c, RectOrigin(s, o))
  IN  Pt(RDiv(RSub(v.x, s.panOffset.x), s.scale), RDiv(RSub(v.y, s.panOffset.y), s.scale))

startDrawingPinch(s) ==
  IF ~s.letterheadLoaded THEN s
  ELSE IF s.tool \in {"pen", "eraser"} THEN [s EXCEPT !.isDrawing = TRUE, !.ink = Dried(s), !.liveInk = <<>>]
  ELSE s

drawPinch(s, o, c) ==
  IF ~s.isDrawing \/ ~s.letterheadLoaded \/ s.tool \notin {"pen", "eraser"} THEN s
  ELSE [s EXCEPT !.liveInk = Append(@, getLogicalCoordsPinch(s, o, c))]

ResetRefs(s) ==
  [s EXCEPT !.lastPanPosition = Null, !.initialPinchDistance = Null,
            !.initialPinchLogicalMidpoint = Null, !.initialPanOffset = Null, !.initialScale = Null]

stopDrawingPinch(s) ==
  [ResetRefs(s) EXCEPT !.isDrawing = FALSE, !.isPanning = FALSE, !.ink = Dried(s), !.liveInk = <<>>]

handleTouchStartPinch(s, o, n, two) ==
  IF ~s.letterheadLoaded THEN s
  ELSE IF n = 1
  THEN IF s.tool \in {"pen", "eraser"} THEN [s EXCEPT !.isDrawing = TRUE, !.ink = Dried(s), !.liveInk = <<>>] ELSE s
  ELSE IF n = 2
  THEN [s EXCEPT !.isDrawing = FALSE, !.isPanning = TRUE, !.lastPanPosition = Some(two.m),
                 !.ink = Dried(s), !.liveInk = <<>>,
                 !.initialPanOffset = Some(s.panOffset), !.initialScale = Some(s.scale),
                 !.initialPinchDistance = Some(two.d),
                 !.initialPinchLogicalMidpoint = Some(getLogicalCoordsPinch(s, o, two.m))]
  ELSE s

\* the pan offset kept within the container: cr is containerRect
BoundedPan(cr, newScale, newPan) ==
  LET maxPanX == RMax(R(0), RSub(RMul(newScale, R(logicalCanvasWidth)), R(cr.w)))
      maxPanY == RMax(R(0), RSub(RMul(newScale, R(logicalCanvasHeight)), R(cr.h)))
  IN  Pt(RMax(RSub(R(0), maxPanX), RMin(RDiv(R(cr.w), R(2)), newPan.x)),
         RMax(RSub(R(0), maxPanY), RMin(RDiv(R(cr.h), R(2)), newPan.y)))

handleTouchMovePinch(s, o, cr, n, t0, two) ==
  IF ~s.letterheadLoaded THEN s
  ELSE IF n = 1 /\ s.isDrawing /\ s.tool \in {"pen", "eraser"}
  THEN [s EXCEPT !.liveInk = Append(@, getLogicalCoordsPinch(s, o, t0))]
  ELSE IF n = 2 /\ s.isPanning
  THEN IF s.lastPanPosition = Null \/ s.initialPinchDistance = Null
          \/ s.initialPinchLogicalMidpoint = Null \/ s.initialPanOffset = Null \/ s.initialScale = Null
       THEN s
       ELSE LET newScale == ClampScalePinch(RMul(s.initialScale[1], RDiv(two.d, s.initialPinchDistance[1])))
                mid == PSub(two.m, RectOrigin(s, o))
                newPan == AnchorPan(mid, s.initialPinchLogicalMidpoint[1], newScale)
            IN  [s EXCEPT !.panOffset = BoundedPan(cr, newScale, newPan), !.scale = newScale,
                          !.lastPanPosition = Some(two.m)]
  ELSE s

handleTouchEndPinch(s, n) ==
  IF n = 0 THEN stopDrawingPinch(s)
  ELSE IF n = 1 /\ s.isPanning
  THEN [s EXCEPT !.isPanning = FALSE, !.initialPinchDistance = Null,
                 !.initialPinchLogicalMidpoint = Null, !.initialPanOffset = Null, !.initialScale = Null]
  ELSE s

clearCanvasPinch(s, confirmed) ==
  IF confirmed
  THEN [s EXCEPT !.scale = R(1), !.panOffset = PInt(0, 0), !.liveInk = <<>>, !.ink = <<>>,
                 !.loads = @ \cup {Whole}]
  ELSE s

\* handleSaveClick: canvas.toBlob encodes the canvas bitmap
handleSaveClickPinch(s) == [w |-> s.width, h |-> s.height]

InitPinch ==
  [ tool |-> "pen", color |-> "#000000", lineWidth |-> 2,
    isDrawing |-> FALSE, isPanning |-> FALSE, letterheadLoaded |-> FALSE,
    scale |-> R(1), panOffset |-> PInt(0, 0),
    lastPanPosition |-> Null, initialPinchDistance |-> Null, initialPinchLogicalMidpoint |-> Null,
    initialPanOffset |-> Null, initialScale |-> Null,
    width |-> logicalCanvasWidth, height |-> logicalCanvasHeight, liveInk |-> <<>>,
    ink |-> <<>>, loads |-> {} ]

-----------------------------------------------------------------------------
(* Observers.  ev names the kind of the last event.  g describes the       *)
(* current or last pointer gesture as the user performed it, whatever the  *)
(* handlers made of it (liveInk, a field of st, is the part of the canvas   *)
(* bitmap painted directly by the stroke in progress):                      *)
(* handlers made of it: pre is the committed list when the first pointer   *)
(* went down, pts the logical points (under the transform on display at    *)
(* each event) the single pointer visited, ts the tool state at the first  *)
(* pointer-down, sts the tool state when the stroke in progress was begun, *)
(* ur the history before an undo that a redo directly follows, mid the     *)
(* midpoint of the two fingers at the last two-finger event, za the anchor *)
(* of the zoom the last event made and the logical point shown under it    *)
(* before, clr the number of strokes the last confirmed clear removed, for  *)
(* as long as only undo and redo have followed it, two the first two        *)
(* touches (midpoint, distance) of the last move of two or more fingers,    *)
(* third whether a third finger has joined two that were down, at the       *)
(* position the last move took the one finger to that a pinch left down,    *)
(* afterPinch whether the gesture directly follows a two-finger gesture.    *)

HasHistory == rev \in {"layers", "dialog"}

\* the revisions that show the canvas under a CSS transform
CssRevs == {"wheel", "pinch"}

Committed(s) == s.actions
RedoBuffer(s) == IF rev = "layers" THEN s.redos ELSE s.redoActions
InProgress(s) == IF rev = "layers" THEN s.current ELSE s.currentAction
BgReady(s) == IF rev = "layers" THEN s.bgReady ELSE s.letterheadLoaded
Scale(s) == IF HasHistory THEN s.zoom ELSE s.scale
Pan(s) == IF rev = "layers" THEN s.pan ELSE s.panOffset

ToolState(s) ==
  [ tool |-> s.tool, color |-> s.color, lineWidth |-> s.lineWidth,
    penStyle |-> IF HasHistory THEN s.penStyle ELSE "round" ]

\* the layout position of the canvas element in the coordinates of the pointer
\* events: client coordinates under a CSS transform, canvas-relative otherwise
Origin == IF rev \in CssRevs THEN env.origin ELSE PInt(0, 0)

\* redrawCanvas of revision "dialog": where a stored point is painted
Redrawn(s, l) == Pt(RAdd(RMul(l.x, s.zoom), s.panOffset.x), RAdd(RMul(l.y, s.zoom), s.panOffset.y))

\* transform: translate(panOffset) scale(scale), origin top left
CssTransform(s, o, l) ==
  Pt(RAdd(o.x, RAdd(s.panOffset.x, RMul(l.x, s.scale))), RAdd(o.y, RAdd(s.panOffset.y, RMul(l.y, s.scale))))

\* the display transform: where logical point l is shown
toViewport(s, l) ==
  CASE rev = "layers" -> toScreen(s, l)
    [] rev = "dialog" -> Redrawn(s, l)
    [] rev \in CssRevs -> CssTransform(s, Origin, l)

\* the input coordinate conversion: the logical point a handler takes for c
toLogical(s, c) ==
  CASE rev = "layers" -> toCanvas(s, c)
    [] rev = "dialog" -> Adjusted(s, c)
    [] rev = "wheel" -> getLogicalCoordsWheel(s, Origin, c)
    [] rev = "pinch" -> getLogicalCoordsPinch(s, Origin, c)

\* some pointer is down
Busy == env.nT > 0 \/ env.mouseDown

\* the logical point on display under canvas-relative position p
Logical(p) ==
  LET v == PSub(PSub(p, Origin), Pan(st))
  IN  Pt(RDiv(v.x, Scale(st)), RDiv(v.y, Scale(st)))

\* the tool that drags the view
PanTools == {"pan", "move"}

GInit ==
  [ pre |-> <<>>, pts |-> <<>>,
    ts |-> [tool |-> "pen", color |-> "#000000", lineWidth |-> 2, penStyle |-> "round"],
    sts |-> [tool |-> "pen", color |-> "#000000", lineWidth |-> 2, penStyle |-> "round"],
    bg0 |-> FALSE, flag0 |-> FALSE, shift |-> FALSE, pinched |-> FALSE, clean |-> TRUE, ur |-> Null,
    mid |-> Null, za |-> Null, clr |-> Null, two |-> Null, third |-> FALSE, at |-> Null,
    afterPinch |-> FALSE, vp |-> Null, preR |-> <<>> ]

\* the observer before the event: an anchor is only seen for one state
G0 == [g EXCEPT !.za = Null, !.clr = Null, !.two = Null, !.at = Null]

\* the observer at rest
GRest == [GInit EXCEPT !.sts = g.sts]

\* a pointer goes down; single: the event carries one pointer; n: the handler's result
GDown(p, single, n) ==
  LET a == IF ~Busy
           THEN [ GRest EXCEPT !.pre = IF HasHistory THEN Committed(st) ELSE <<>>,
                               !.preR = IF HasHistory THEN RedoBuffer(st) ELSE <<>>,
                               !.pts = IF single THEN <<Logical(p)>> ELSE <<>>,
                               !.ts = ToolState(st), !.bg0 = BgReady(st),
                               !.flag0 = IF rev = "layers" THEN st.isTwoFingerPan ELSE FALSE,
                               !.pinched = ~single,
                               !.afterPinch = g.pinched /\ ev \in {"lift", "commit", "cancel"},
                               !.vp = IF single /\ st.tool \in PanTools THEN Some(p) ELSE Null ]
           ELSE [ G0 EXCEPT !.pinched = TRUE, !.ur = Null, !.vp = Null, !.preR = <<>> ]
  IN  IF HasHistory /\ InProgress(n) # Null /\ InProgress(n) # InProgress(st)
      THEN [a EXCEPT !.sts = ToolState(st)] ELSE a

\* a pointer moves
GMove(p) ==
  IF ~Busy THEN GRest
  ELSE LET v == IF st.tool \in PanTools /\ env.nT <= 1 THEN Some(p) ELSE Null
       IN  IF g.clean /\ ~g.pinched
           THEN [G0 EXCEPT !.pts = Append(@, Logical(p)), !.ur = Null, !.vp = v, !.preR = <<>>]
           ELSE [G0 EXCEPT !.ur = Null, !.vp = v, !.preR = <<>>]

\* a pointer lifts or leaves
GLift == IF ~Busy THEN GRest ELSE [G0 EXCEPT !.ur = Null, !.mid = Null]

\* a command: any event that is not a pointer event
GOther == IF ~Busy THEN GRest ELSE [G0 EXCEPT !.clean = FALSE, !.ur = Null, !.preR = <<>>]

GUndo ==
  [GOther EXCEPT !.ur = IF Len(Committed(st)) > 0
                       THEN Some([S |-> Committed(st), R |-> RedoBuffer(st), done |-> FALSE])
                       ELSE Null]

GRedo ==
  [GOther EXCEPT !.ur = IF g.ur # Null /\ ~g.ur[1].done THEN Some([g.ur[1] EXCEPT !.done = TRUE]) ELSE Null]

\* a clear the user confirmed
GClear(confirmed) ==
  [GOther EXCEPT !.clr = IF confirmed /\ HasHistory
                        THEN Some(Len(Committed(st)) + Len(RedoBuffer(st))) ELSE Null]

\* what the bounds admit
Fits(n, gg, e) ==
  /\ HasHistory =>
       /\ Len(Committed(n)) + Len(RedoBuffer(n)) + Len(InProgress(n)) <= e.lim.strokes
       /\ InProgress(n) # Null => Len(InProgress(n)[1].points) <= MaxPoints
  /\ Len(gg.pts) <= MaxPoints
  /\ e.nDown <= e.lim.downs
  /\ e.nMove <= e.lim.moves
  /\ e.nSet <= MaxSettings
  /\ e.nHist <= e.lim.hist
  /\ e.nView <= MaxViewOps

\* the effects that run with the render after a handler: "layers" resets
\* both canvases, reloads the letterhead and repaints the ink canvas from
\* the committed list when actions, zoom or pan changed;
\* "dialog" resets and repaints it when zoom, panOffset, color, lineWidth or
\* penStyle changed, reloads the letterhead, and registers a new resize
\* listener unless only panOffset changed.  Either wipes what was painted of the stroke in progress.
Effects(s0, n) ==
  CASE rev = "layers" ->
         IF n.actions # s0.actions \/ n.zoom # s0.zoom \/ n.pan # s0.pan
         THEN drawLetterhead([n EXCEPT !.liveInk = <<>>, !.painted = redrawStrokes(n)],
                             [zoom |-> n.zoom, pan |-> n.pan])
         ELSE n
    [] rev = "dialog" ->
         LET sized == n.zoom # s0.zoom \/ n.color # s0.color
                      \/ n.lineWidth # s0.lineWidth \/ n.penStyle # s0.penStyle
             m == IF sized
                  THEN [n EXCEPT !.sizedFor = [actions |-> n.actions, panOffset |-> n.panOffset]]
                  ELSE n
         IN  IF sized \/ n.panOffset # s0.panOffset
             THEN drawLetterheadDialog([m EXCEPT !.liveInk = <<>>, !.painted = redrawCanvas(n)],
                                       [zoom |-> n.zoom, pan |-> n.panOffset])
             ELSE m
    [] OTHER -> n

\* one event: the handler's result n, then the effects, become the state
Event(name, n, gg, e) ==
  /\ Fits(n, gg, e)
  /\ st' = Effects(st, n)
  /\ g' = gg
  /\ ev' = name
  /\ env' = [e EXCEPT !.out = IF name = "save" THEN @ ELSE Null]
  /\ UNCHANGED rev

\* the zoom anchor c is observed when the event changed the scale
Anchored(gg, n, c) ==
  [gg EXCEPT !.za = IF Scale(n) # Scale(st) THEN Some([p |-> c, l |-> Logical(c)]) ELSE Null]

Down(e) == [e EXCEPT !.nDown = @ + 1]
Move(e) == [e EXCEPT !.nMove = @ + 1]
Setting(e) == [e EXCEPT !.nSet = @ + 1]
Hist(e) == [e EXCEPT !.nHist = @ + 1]
View(e) == [e EXCEPT !.nView = @ + 1]

\* a lift that appended to the committed list is labelled "commit"
LiftName(n) == IF HasHistory /\ Committed(n) # Committed(st) THEN "commit" ELSE "lift"

-----------------------------------------------------------------------------
(* The handler each revision binds to an event.  p and two.m are in the    *)
(* coordinates of that revision's pointer events.                          *)

OnMouseDown(s, p, shiftKey) ==
  CASE rev = "layers" -> startDraw(s, p)
    [] rev = "dialog" -> startDrawing(s, p, shiftKey)
    [] rev = "wheel" -> startDrawingWheel(s, p)
    [] rev = "pinch" -> startDrawingPinch(s)

OnMouseMove(s, p) ==
  CASE rev = "layers" -> moveDraw(s, p)
    [] rev = "dialog" -> draw(s, p)
    [] rev = "wheel" -> drawWheel(s, Origin, p)
    [] rev = "pinch" -> drawPinch(s, Origin, p)

\* onMouseUp and onMouseLeave
OnMouseUp(s) ==
  CASE rev = "layers" -> endDraw(s)
    [] rev = "dialog" -> stopDrawing(s)
    [] rev = "wheel" -> stopDrawingWheel(s)
    [] rev = "pinch" -> stopDrawingPinch(s)

\* n touches are down after the event; p is touches[0]
OnTouchStart(s, n, p, two) ==
  CASE rev = "layers" -> onTouchStart(s, n, p, two)
    [] rev = "dialog" -> startDrawing(s, p, FALSE)
    [] rev = "wheel" -> handleTouchStartWheel(s, Origin, n, p, two)
    [] rev = "pinch" -> handleTouchStartPinch(s, Origin, n, two)

OnTouchMove(s, n, p, two) ==
  CASE rev = "layers" -> onTouchMove(s, n, p, two)
    [] rev = "dialog" -> draw(s, p)
    [] rev = "wheel" -> handleTouchMoveWheel(s, Origin, n, p, two)
    [] rev = "pinch" -> handleTouchMovePinch(s, Origin, env.cont, n, p, two)

\* n touches remain after the event; p is the first of them
OnTouchEnd(s, n, p) ==
  CASE rev = "layers" -> endDraw(s)
    [] rev = "dialog" -> stopDrawing(s)
    [] rev = "wheel" -> handleTouchEndWheel(s, n, p)
    [] rev = "pinch" -> handleTouchEndPinch(s, n)

\* touchcancel: "wheel" and "pinch" bind it to handleTouchEnd, "layers" and
\* "dialog" bind no handler to it
OnTouchCancel(s) ==
  CASE rev = "layers" -> s
    [] rev = "dialog" -> s
    [] rev = "wheel" -> handleTouchEndWheel(s, 0, PInt(0, 0))
    [] rev = "pinch" -> handleTouchEndPinch(s, 0)


OnClear(s, confirmed) ==
  CASE rev = "layers" -> clearCanvas(s, confirmed)
    [] rev = "dialog" -> clearCanvasDialog(s, confirmed)
    [] rev = "wheel" -> clearCanvasWheel(s, confirmed)
    [] rev = "pinch" -> clearCanvasPinch(s, confirmed)


\* handleSave of revision "dialog": the temporary canvas takes the canvas size
handleSave(s) == [w |-> s.width, h |-> s.height]

\* handleSave once toBlob has called back: the rejection is caught and alerted
handleSaveSettled(s, blob) == [st |-> s, onSave |-> blob, rejected |-> FALSE, notified |-> ~blob]

\* the toBlob callback of handleSaveClick: onSave(blob), or toast.error
toBlobCallback(s, blob) == [st |-> s, onSave |-> blob, rejected |-> FALSE, notified |-> ~blob]

\* blob: the encoder produced a blob (FALSE: toBlob calls back with null)
OnSaveSettled(s, blob) ==
  CASE rev = "layers" -> saveSettled(s, blob)
    [] rev = "dialog" -> handleSaveSettled(s, blob)
    [] rev \in CssRevs -> toBlobCallback(s, blob)

OnSave(s) ==
  CASE rev = "layers" -> save(s)
    [] rev = "dialog" -> handleSave(s)
    [] rev = "wheel" -> handleSaveClick(s)
    [] rev = "pinch" -> handleSaveClickPinch(s)

\* setBgReady(true) / setLetterheadLoaded(true)
\* where img.onload paints the letterhead for the zoom and pan l it was
\* started with: "layers" sets the transform (l.zoom, l.pan); "dialog" scales
\* the image about the centre of the canvas and shifts it by l.pan
LetterheadAt(s, l) ==
  IF rev = "dialog"
  THEN [zoom |-> l.zoom,
        pan  |-> Pt(RSub(l.pan.x, RMul(RSub(l.zoom, R(1)), RDiv(R(s.width), R(2)))),
                    RSub(l.pan.y, RMul(RSub(l.zoom, R(1)), RDiv(R(s.height), R(2)))))]
  ELSE l

OnLetterhead(s) ==
  CASE rev = "layers" -> [s EXCEPT !.bgReady = TRUE, !.bgAt = Some(Whole)]
    [] rev = "dialog" -> [s EXCEPT !.letterheadLoaded = TRUE, !.bgAt = Some(Whole)]
    [] OTHER -> [s EXCEPT !.letterheadLoaded = TRUE]

\* onload of a letterhead load started after the first: "layers" and "dialog"
\* paint the background under l and set the ready flag; the revisions of one
\* canvas draw the image over the whole bitmap
onload(s, l) ==
  CASE rev = "layers" -> [s EXCEPT !.loads = @ \ {l}, !.bgAt = Some(LetterheadAt(s, l)), !.bgReady = TRUE]
    [] rev = "dialog" -> [s EXCEPT !.loads = @ \ {l}, !.bgAt = Some(LetterheadAt(s, l)),
                                   !.letterheadLoaded = TRUE]
    [] OTHER -> [s EXCEPT !.loads = @ \ {l}, !.ink = <<>>, !.liveInk = <<>>]

\* the bitmaps save copies into the file: the background canvas, and the ink
\* canvas with every stroke at the pixels it was painted at ("wheel" and
\* "pinch" encode their one bitmap, kept in logical coordinates)
Exported(s) ==
  IF HasHistory
  THEN [ bg  |-> s.bgAt,
         ink |-> [i \in 1 .. Len(s.painted.strokes) |->
                    [j \in 1 .. Len(s.painted.strokes[i].points) |->
                       toScreen(s.painted, s.painted.strokes[i].points[j])]] ]
  ELSE [ bg |-> IF s.loads = {} THEN Some(Whole) ELSE Null, ink |-> s.ink ]

\* the tools of each revision's toolbar
ToolsOf ==
  CASE rev = "layers" -> {"pen", "eraser", "move"}
    [] rev = "dialog" -> {"pen", "eraser"}
    [] rev = "wheel" -> {"pen", "eraser", "pan"}
    [] rev = "pinch" -> {"pen", "eraser"}

-----------------------------------------------------------------------------
(* Events *)

\* the pointer position an event reports for the position p over the canvas
\* area: client coordinates under a CSS transform, canvas-relative otherwise
Client(p) == PAdd(Origin, p)
TwoClient(two) == [m |-> Client(two.m), d |-> two.d]

\* img.onload: the letterhead is painted and the ready flag set
LetterheadReady ==
  /\ env.load = "image" /\ env.img = "ok"
  /\ Event("bg", OnLetterhead(st), GOther, [env EXCEPT !.load = "done", !.bg = "letterhead"])

\* img.onload of a later load, the letterhead being served
ReloadReady ==
  \E l \in st.loads :
    /\ env.img = "ok"
    /\ Event("bg", onload(st, l), GOther, env)

\* img.onerror: "layers" fetches the URL to retry from a blob; the other
\* revisions paint the fallback surface and set the ready flag
LetterheadError ==
  /\ env.load = "image" /\ env.img # "ok"
  /\ IF rev = "layers"
     THEN Event("bg", st, GOther, [env EXCEPT !.load = "fetch"])
     ELSE Event("bg", OnLetterhead(st), GOther, [env EXCEPT !.load = "done", !.bg = "fallback"])

\* the fetch of "layers" rejects: the catch paints the fallback surface and
\* sets the ready flag
FetchRejected ==
  /\ rev = "layers" /\ env.load = "fetch" /\ env.img = "unreachable"
  /\ Event("bg", OnLetterhead(st), GOther, [env EXCEPT !.load = "done", !.bg = "fallback"])

\* the fetch of "layers" resolves: paint(URL.createObjectURL(b)) loads the
\* same bytes into a new Image
FetchResolved ==
  /\ rev = "layers" /\ env.load = "fetch" /\ env.img = "undecodable"
  /\ Event("bg", st, GOther, [env EXCEPT !.load = "image"])

SetTool ==
  \E t \in ToolsOf :
    /\ t # st.tool
    /\ Event("set", [st EXCEPT !.tool = t], GOther, Setting(env))

SetColor ==
  \E c \in Colors :
    /\ c # st.color
    /\ Event("set", [st EXCEPT !.color = c], GOther, Setting(env))

SetLineWidth ==
  \E w \in Widths :
    /\ w # st.lineWidth
    /\ Event("set", [st EXCEPT !.lineWidth = w], GOther, Setting(env))

SetPenStyle ==
  \E c \in PenStyles :
    /\ HasHistory
    /\ c # st.penStyle
    /\ Event("set", [st EXCEPT !.penStyle = c], GOther, Setting(env))

MouseDown ==
  \E p \in VPoints : \E shiftKey \in BOOLEAN :
    /\ env.pointer = "mouse"
    /\ ~env.mouseDown
    /\ shiftKey => rev = "dialog"
    /\ LET n == OnMouseDown(st, Client(p), shiftKey)
       IN  Event("down", n, [GDown(Client(p), TRUE, n) EXCEPT !.shift = shiftKey], Down([env EXCEPT !.mouseDown = TRUE]))

MouseMove ==
  \E p \in VPoints :
    /\ env.pointer = "mouse"
    /\ Event("move", OnMouseMove(st, Client(p)), GMove(Client(p)), Move(env))

MouseUp ==
  /\ env.pointer = "mouse"
  /\ env.mouseDown
  /\ Event(LiftName(OnMouseUp(st)), OnMouseUp(st), GLift, [env EXCEPT !.mouseDown = FALSE])

\* the pointer leaves the canvas; a pressed button is released outside of it
MouseLeave ==
  /\ env.pointer = "mouse"
  /\ Event(LiftName(OnMouseUp(st)), OnMouseUp(st), GLift, [env EXCEPT !.mouseDown = FALSE])

\* k fingers touch down in one event
TouchStart ==
  \E k \in 1 .. 2 : \E p \in VPoints : \E two \in TwoTouches :
    /\ env.pointer = "touch"
    /\ env.nT + k <= MaxTouches
    /\ (env.nT + k # 2) => two = CHOOSE x \in TwoTouches : TRUE
    /\ (env.nT + k = 2 /\ rev # "dialog") => p = CHOOSE x \in VPoints : TRUE
    /\ LET n == OnTouchStart(st, env.nT + k, Client(p), TwoClient(two))
           gg == GDown(Client(p), k = 1, n)
       IN  Event("down", n, [gg EXCEPT !.mid = IF env.nT + k = 2 THEN Some(Client(two.m)) ELSE @,
                                       !.third = (env.nT = 2)],
                 Down([env EXCEPT !.nT = @ + k]))

\* a pinch step is observed as a zoom around the midpoint when the midpoint
\* has stayed where it was
TouchMove ==
  \E p \in VPoints : \E two \in TwoTouches :
    /\ env.nT > 0
    /\ (env.nT < 2) => two = CHOOSE x \in TwoTouches : TRUE
    /\ (env.nT = 2 /\ rev # "dialog") => p = CHOOSE x \in VPoints : TRUE
    /\ LET n == OnTouchMove(st, env.nT, Client(p), TwoClient(two))
           gg == [GMove(Client(p)) EXCEPT !.two = IF env.nT >= 2 THEN Some(TwoClient(two)) ELSE Null,
                                          !.at = IF env.nT = 1 /\ g.pinched THEN Some(Client(p)) ELSE Null]
           m == Client(two.m)
       IN  Event(IF Scale(n) # Scale(st) THEN "zoom" ELSE "move", n,
                 IF env.nT = 2
                 THEN [gg EXCEPT !.mid = Some(m),
                                 !.za = IF Scale(n) # Scale(st) /\ g.mid = Some(m)
                                        THEN Some([p |-> m, l |-> Logical(m)]) ELSE Null]
                 ELSE gg,
                 Move(env))

\* one finger lifts; onTouchCancel is bound to the same handler where bound
TouchEnd ==
  \E p \in VPoints :
    /\ env.nT > 0
    /\ (env.nT # 2 \/ rev # "wheel") => p = CHOOSE x \in VPoints : TRUE
    /\ LET n == OnTouchEnd(st, env.nT - 1, Client(p))
       IN  Event(LiftName(n), n, GLift, [env EXCEPT !.nT = @ - 1])

\* the system takes every touch away (an incoming call, a system gesture)
TouchCancel ==
  /\ env.nT > 0
  /\ Event("cancel", OnTouchCancel(st), GLift, [env EXCEPT !.nT = 0])

\* the Undo button, or Ctrl+Z in revision "dialog"
Undo ==
  /\ HasHistory
  /\ Event("undo", (IF rev = "layers" THEN undo(st) ELSE handleUndo(st)), [GUndo EXCEPT !.clr = g.clr], Hist(env))

\* the Redo button, or Ctrl+Y in revision "dialog"
Redo ==
  /\ HasHistory
  /\ Event("redo", (IF rev = "layers" THEN redo(st) ELSE handleRedo(st)), [GRedo EXCEPT !.clr = g.clr], Hist(env))

\* Ctrl+Z twice in revision "dialog", the second keydown reaching the listener
\* of the render the first was handled in
UndoTwice ==
  /\ rev = "dialog"
  /\ Event("undo", handleUndoAgain(st, handleUndo(st)), GOther, Hist(env))

\* Ctrl+Y twice in revision "dialog", likewise
RedoTwice ==
  /\ rev = "dialog"
  /\ Event("redo", handleRedoAgain(st, handleRedo(st)), GOther, Hist(env))

\* the Clear button; the user confirms or cancels
Clear ==
  \E confirmed \in BOOLEAN :
    Event("clear", OnClear(st, confirmed), GClear(confirmed), IF HasHistory THEN Hist(env) ELSE View(env))

\* the mouse wheel over the container of revision "wheel"
Wheel ==
  \E c \in VPoints : \E magnify \in BOOLEAN :
    /\ rev = "wheel"
    /\ LET n == handleWheel(st, Origin, Client(c), magnify)
       IN  Event("zoom", n, Anchored(GOther, n, Client(c)), View(env))

\* the zoom buttons, and + / - / 0 in revision "dialog"
ZoomIn == HasHistory /\ Event("zoom", (IF rev = "layers" THEN zoomIn(st) ELSE handleZoomIn(st)), GOther, View(env))
ZoomOut == HasHistory /\ Event("zoom", (IF rev = "layers" THEN zoomOut(st) ELSE handleZoomOut(st)), GOther, View(env))
ZoomReset == HasHistory /\ Event("zoom", (IF rev = "layers" THEN zoomReset(st) ELSE handleResetZoom(st)), GOther, View(env))
PanReset == HasHistory /\ Event("view", (IF rev = "layers" THEN panReset(st) ELSE handleResetPan(st)), GOther, View(env))

\* the Move button of revision "dialog"
TogglePan == rev = "dialog" /\ Event("view", togglePanning(st), GOther, View(env))

\* the window is resized
Resize ==
  \E c \in Containers :
    /\ HasHistory
    /\ Event("resize", (IF rev = "layers" THEN resize(st, c) ELSE updateCanvasSize(st, c)), GOther, View([env EXCEPT !.cont = c]))

\* the Save button, disabled until the background is ready; out is the bitmap
\* handed to the encoder (its size, and the ink on it that belongs to a stroke
\* still in progress), with the view it was taken under and what came of the
\* attempt: whether onSave was called, whether a failure was reported
Save ==
  \E blob \in BOOLEAN :
    /\ BgReady(st)
    /\ LET r == OnSaveSettled(st, blob)
       IN  Event("save", r.st, GOther,
                 View([env EXCEPT !.out = Some([w |-> OnSave(st).w, h |-> OnSave(st).h,
                                                live |-> st.liveInk, image |-> Exported(st),
                                                scale |-> Scale(st), pan |-> Pan(st),
                                                blob |-> blob, onSave |-> r.onSave,
                                                failed |-> r.rejected \/ r.notified])]))

\* what the letterhead URL serves: an image, nothing that can be fetched, or
\* bytes that fetch but do not decode as an image
Images == {"ok", "unreachable", "undecodable"}

\* pointer: the device of the run, a mouse or a touch screen; origin: the
\* layout position of the canvas; cont: the container's client size; lim: the
\* strokes, pointer events and history commands the run is followed for;
\* img: what the letterhead URL serves; load: the pending step of the load
\* ("image": an Image is loading, "fetch": a fetch is pending, "done");
\* bg: what is painted on the background
EnvInit(d, o, c, lim) ==
  [ pointer |-> d, origin |-> o, cont |-> c, lim |-> lim, nT |-> 0, mouseDown |-> FALSE,
    nDown |-> 0, nMove |-> 0, nSet |-> 0, nHist |-> 0, nView |-> 0, out |-> Null,
    img |-> "ok", load |-> "image", bg |-> "none" ]

\* layout positions of the canvas in the viewport
Origins == { PInt(0, 0), PInt(20, 100) }

StInit(c) ==
  CASE rev = "layers" -> InitLayers(c)
    [] rev = "dialog" -> InitDialog(c)
    [] rev = "wheel" -> InitWheel
    [] rev = "pinch" -> InitPinch

Init ==
  /\ rev \in {"layers", "dialog"}
  /\ \E c \in Containers : \E d \in {"mouse", "touch"} :
       /\ c = CHOOSE x \in Containers : TRUE
       /\ st = StInit(c)
       /\ env = EnvInit(d, PInt(0, 0), c, [strokes |-> MaxStrokes, downs |-> MaxDowns, moves |-> MaxMoves, hist |-> MaxHistoryOps])
  /\ ev = "init"
  /\ g = GInit

Gesture ==
  \/ MouseDown \/ MouseMove \/ MouseUp \/ MouseLeave
  \/ TouchStart \/ TouchMove \/ TouchEnd

Pointer == LetterheadReady \/ Gesture

Next == Pointer \/ Undo \/ Redo \/ Clear

\* pointer events and the history commands
Spec == Init /\ [][Next]_vars

NextTools == Pointer \/ SetTool \/ SetColor \/ SetLineWidth \/ SetPenStyle

\* pointer events and the tool settings
SpecTools == Init /\ [][NextTools]_vars

\* the scales the zoom buttons of "layers" and "dialog" lead to
ZoomStarts == IF HasHistory THEN {MinZoom, R(1), MaxZoom} ELSE {R(1)}

\* the canvas in use: the letterhead has loaded, a tool is chosen, the zoom
\* buttons have been used
InitView ==
  /\ rev \in {"layers", "dialog", "wheel", "pinch"}
  /\ \E c \in Containers : \E d \in {"mouse", "touch"} : \E o \in Origins :
     \E z \in ZoomStarts : \E t \in ToolsOf :
       /\ rev \notin CssRevs => o = PInt(0, 0)
       /\ rev # "pinch" => c = CHOOSE x \in Containers : TRUE
       /\ st = IF HasHistory
               THEN [OnLetterhead(StInit(c)) EXCEPT !.zoom = z, !.tool = t, !.painted.zoom = z,
                                                    !.bgAt = Some(LetterheadAt(StInit(c),
                                                                               [zoom |-> z, pan |-> PInt(0, 0)]))]
               ELSE [OnLetterhead(StInit(c)) EXCEPT !.tool = t]
       /\ env = [EnvInit(d, o, c, [strokes |-> MaxViewStrokes, downs |-> MaxViewDowns, moves |-> MaxViewMoves, hist |-> 0])
                  EXCEPT !.load = "done", !.bg = "letterhead"]
  /\ ev = "init"
  /\ g = GInit

NextView ==
  \/ Gesture \/ Clear
  \/ Wheel \/ ZoomIn \/ ZoomOut \/ ZoomReset \/ PanReset \/ TogglePan

\* gestures and the view commands
SpecView == InitView /\ [][NextView]_vars

NextSave == Gesture \/ Resize \/ Save

\* gestures, resizing and saving
SpecSave == InitView /\ [][NextSave]_vars

NextReload == Gesture \/ Clear \/ ZoomIn \/ ZoomOut \/ ReloadReady

\* gestures, clear and the zoom buttons, with the letterhead loads they start
SpecReload == InitView /\ [][NextReload]_vars

\* the dialog used with the mouse and the keyboard
InitKeys ==
  /\ rev = "dialog"
  /\ \E c \in Containers :
       /\ c = CHOOSE x \in Containers : TRUE
       /\ st = StInit(c)
       /\ env = EnvInit("mouse", PInt(0, 0), c,
                        [strokes |-> MaxStrokes, downs |-> MaxDowns, moves |-> MaxMoves, hist |-> MaxHistoryOps])
  /\ ev = "init"
  /\ g = GInit

NextKeys ==
  \/ LetterheadReady \/ MouseDown \/ MouseMove \/ MouseUp
  \/ Undo \/ Redo \/ UndoTwice \/ RedoTwice

\* strokes drawn with the mouse, undone and redone from the keyboard
SpecKeys == InitKeys /\ [][NextKeys]_vars

\* the component after mount, whatever the letterhead URL serves
InitLoad ==
  /\ rev \in {"layers", "dialog", "wheel", "pinch"}
  /\ \E c \in Containers : \E d \in {"mouse", "touch"} : \E o \in Origins : \E i \in Images :
       /\ rev \notin CssRevs => o = PInt(0, 0)
       /\ c = CHOOSE x \in Containers : TRUE
       /\ st = StInit(c)
       /\ env = [EnvInit(d, o, c, [strokes |-> MaxViewStrokes, downs |-> MaxViewDowns, moves |-> MaxMoves, hist |-> 0])
                  EXCEPT !.img = i]
  /\ ev = "init"
  /\ g = GInit

\* the steps of the letterhead load
Load == LetterheadReady \/ LetterheadError \/ FetchRejected \/ FetchResolved

NextLoad == Load \/ Gesture

\* the letterhead load and gestures; the browser delivers every pending load
\* event and settles every pending fetch
SpecLoad == InitLoad /\ [][NextLoad]_vars /\ WF_vars(Load)

\* the canvas in use, followed for the pointer events of longer gestures
InitTouch ==
  /\ rev \in {"layers", "dialog", "wheel", "pinch"}
  /\ \E c \in Containers : \E d \in {"mouse", "touch"} : \E t \in ToolsOf :
       /\ c = CHOOSE x \in Containers : TRUE
       /\ st = [OnLetterhead(StInit(c)) EXCEPT !.tool = t]
       /\ env = [EnvInit(d, CHOOSE o \in Origins : o # PInt(0, 0), c,
                          [strokes |-> MaxViewStrokes, downs |-> MaxDowns, moves |-> MaxMoves, hist |-> 0])
                  EXCEPT !.load = "done", !.bg = "letterhead"]
  /\ ev = "init"
  /\ g = GInit

NextTouch == Gesture \/ TouchCancel

\* gestures of up to three fingers, which the system may cancel
SpecTouch == InitTouch /\ [][NextTouch]_vars

-----------------------------------------------------------------------------
(* Properties of the stroke history *)

\* a pointer gesture has just ended: the last pointer lifted
GestureEnded == ev \in {"lift", "commit"} /\ ~Busy

\* C1: undo directly followed by redo, from a non-empty committed list S and
\* any redo buffer R, leaves committed equal to S and the redo buffer equal to R
C1_UndoRedoRestores ==
  (g.ur # Null /\ g.ur[1].done) =>
    /\ Committed(st) = g.ur[1].S
    /\ RedoBuffer(st) = g.ur[1].R

\* undo then redo has run from a state with strokes on both lists
C1_Witness ==
  /\ ev = "redo"
  /\ g.ur # Null /\ g.ur[1].done
  /\ Len(g.ur[1].S) > 0 /\ Len(g.ur[1].R) > 0

\* C2: immediately after a stroke is committed the redo buffer is empty,
\* whatever undo/redo commands interleave with the draw gesture
C2_RedoEmptyAfterCommit == ev = "commit" => RedoBuffer(st) = <<>>

\* C3: a pen stroke begun with one finger and interrupted by a second finger
\* touching down leaves, once all fingers have lifted, the committed list as it
\* was before the gesture
C3_PinchDropsStroke ==
  (GestureEnded /\ env.pointer = "touch" /\ g.clean /\ g.pinched /\ g.bg0
     /\ Len(g.pts) >= 1 /\ g.ts.tool = "pen")
    => Committed(st) = g.pre

\* C4: every committed stroke has at least two points, and a tap (one point,
\* then lift) leaves the committed list unchanged
C4_NoShortStrokes ==
  /\ \A i \in 1 .. Len(Committed(st)) : Len(Committed(st)[i].points) >= 2
  /\ (GestureEnded /\ g.clean /\ ~g.pinched /\ Len(g.pts) = 1) => Committed(st) = g.pre

\* a tap has just ended on a canvas that accepts drawing and holds a stroke
C4_Witness ==
  /\ GestureEnded /\ g.clean /\ ~g.pinched /\ Len(g.pts) = 1
  /\ g.bg0 /\ g.ts.tool = "pen" /\ ~g.shift
  /\ Len(Committed(st)) > 0

\* C9: a single-pointer pen gesture visiting p1..pn, n >= 2, then lifting,
\* appends exactly one stroke whose points are p1..pn in that order
C9_GestureBecomesStroke ==
  (GestureEnded /\ g.clean /\ ~g.pinched /\ ~g.shift /\ g.bg0
     /\ g.ts.tool = "pen" /\ Len(g.pts) >= 2)
    => /\ Len(Committed(st)) = Len(g.pre) + 1
       /\ ButLast(Committed(st)) = g.pre
       /\ Last(Committed(st)).points = g.pts

\* the colour and width an eraser stroke is recorded with
EraserColor == IF rev = "layers" THEN "#fff" ELSE "#ffffff"

-----------------------------------------------------------------------------
(* Properties of the view transform and the export *)

MinScaleOf ==
  CASE HasHistory -> MinZoom
    [] rev = "wheel" -> MinScaleWheel
    [] rev = "pinch" -> minScale

MaxScaleOf ==
  CASE HasHistory -> MaxZoom
    [] rev = "wheel" -> MaxScaleWheel
    [] rev = "pinch" -> maxScale

\* C5: after any wheel zoom, pinch zoom, zoom button or reset the scale is
\* within the limits of the revision
C5_ScaleWithinLimits == RLe(MinScaleOf, Scale(st)) /\ RLe(Scale(st), MaxScaleOf)

\* a zoom event has left the scale at the upper limit
C5_Witness == ev = "zoom" /\ Scale(st) = MaxScaleOf

\* C6: after a zoom around an anchor (wheel cursor or pinch midpoint) the
\* logical point that was shown under the anchor is still shown under it
C6_AnchorStays == g.za # Null => toViewport(st, g.za[1].l) = g.za[1].p

\* logical points of the workspace
LPoints == { PInt(10, 10), PInt(50, 50) }

\* C7: a logical point mapped to the viewport by the display transform and
\* back by the input conversion is the same point, for every reachable scale
\* and pan
C7_RoundTrip == \A l \in LPoints : toLogical(st, toViewport(st, l)) = l

\* the bitmap size of the canvas
Workspace == IF rev \in CssRevs THEN [w |-> LogicalWidth, h |-> LogicalHeight] ELSE [w |-> st.width, h |-> st.height]

C11_ExportCommittedOnly == env.out # Null => env.out[1].live = <<>>

\* C12: once the background load has started the ready flag eventually becomes
\* true, whether the image loads or fails, and after a failure the background
\* shows the fallback surface
C12_BackgroundBecomesReady ==
  <>(BgReady(st) /\ (env.img # "ok" => env.bg = "fallback"))

\* C13: while the background load is pending, a single-pointer gesture with
\* pen or eraser over p1..pn, n >= 2, is recorded and committed on pointer-up
C13_DrawsWhilePending ==
  (GestureEnded /\ g.clean /\ ~g.pinched /\ ~g.shift /\ ~g.bg0
     /\ g.ts.tool \in {"pen", "eraser"} /\ Len(g.pts) >= 2)
    => /\ Len(Committed(st)) = Len(g.pre) + 1
       /\ Last(Committed(st)).points = g.pts

\* C14: when the encoding of the export fails, the attempt reports a failure
\* (rejected promise or error notification), onSave is not called, and the
\* committed list, the redo buffer, scale and pan are as before the attempt
C14_FailedSaveKeepsState ==
  [][(ev' = "save" /\ ~env'.out[1].blob) =>
       /\ env'.out[1].failed /\ ~env'.out[1].onSave
       /\ Scale(st') = Scale(st) /\ Pan(st') = Pan(st)
       /\ HasHistory => (Committed(st') = Committed(st) /\ RedoBuffer(st') = RedoBuffer(st))]_vars

\* an encoding has failed with a stroke committed and the view zoomed
C14_Witness ==
  /\ ev = "save" /\ env.out # Null /\ ~env.out[1].blob
  /\ HasHistory /\ Len(Committed(st)) > 0 /\ Scale(st) # R(1)

\* C15: undo with the committed list empty, and redo with the redo buffer
\* empty, change neither list nor the view transform
C15_EmptyUndoRedoNoOp ==
  [][((ev' = "undo" /\ Committed(st) = <<>>) \/ (ev' = "redo" /\ RedoBuffer(st) = <<>>)) =>
       /\ Committed(st') = Committed(st) /\ RedoBuffer(st') = RedoBuffer(st)
       /\ Scale(st') = Scale(st) /\ Pan(st') = Pan(st)]_vars

\* undo has run on an empty committed list: an undo that removes a stroke
\* leaves the redo buffer non-empty
C15_Witness == ev = "undo" /\ Committed(st) = <<>> /\ RedoBuffer(st) = <<>>

\* C16: after a confirmed clear the committed list and the redo buffer are
\* empty, and they stay empty under any sequence of undo and redo
C16_ClearIsIrreversible ==
  g.clr # Null => (Committed(st) = <<>> /\ RedoBuffer(st) = <<>>)

\* a redo has followed a clear that removed strokes
C16_Witness == g.clr # Null /\ g.clr[1] > 0 /\ ev = "redo"

-----------------------------------------------------------------------------
(* Properties of the gesture recognizer *)

\* no stroke is in progress and no pinch or pan is being tracked
RecognizerIdle(s) ==
  CASE rev = "layers" -> ~s.isDrawing /\ s.current = Null /\ ~s.isTwoFingerPan
    [] rev = "dialog" -> ~s.isDrawing /\ s.currentAction = Null
    [] rev = "wheel" -> ~s.isDrawing /\ s.initialPinchDistance = Null
    [] rev = "pinch" -> ~s.isDrawing /\ ~s.isPanning

\* C17: a touch-cancel ends the gesture at once: no stroke is in progress, the
\* recognizer is idle, and a stroke has been committed only if the gesture was
\* a drawing gesture of at least two points
C17_CancelEndsGesture ==
  ev = "cancel" =>
    /\ RecognizerIdle(st)
    /\ (HasHistory /\ Committed(st) # g.pre) => (~g.pinched /\ Len(g.pts) >= 2)

\* C18: a third finger touching down during a two-finger pinch is ignored: the
\* touch-down changes neither scale, pan nor the history, and later moves keep
\* zooming and panning by the first two fingers as they would without it
C18_ThirdPointerIgnored ==
  [][/\ (ev' = "down" /\ env.nT = 2 /\ env'.nT = 3) =>
          /\ Scale(st') = Scale(st) /\ Pan(st') = Pan(st)
          /\ HasHistory => (Committed(st') = Committed(st) /\ RedoBuffer(st') = RedoBuffer(st))
     /\ (ev' \in {"move", "zoom"} /\ env.nT = 3 /\ g.third /\ g'.two # Null /\ rev # "dialog") =>
          LET n == OnTouchMove(st, 2, CHOOSE x \in VPoints : TRUE, g'.two[1])
          IN  Scale(st') = Scale(n) /\ Pan(st') = Pan(n)]_vars

\* C19: when one finger of a two-finger pinch lifts, the remaining finger acts
\* as a single pointer under the current tool: with the pan tool its moves pan
\* the view by the distance moved, with pen or eraser its moves extend a new
\* stroke ("dialog" has no two-finger pinch)
C19_PinchDropsToSingle ==
  [][(ev' = "move" /\ env.nT = 1 /\ g.pinched /\ rev # "dialog") =>
       IF st.tool \in PanTools
       THEN g.at # Null => Pan(st') = PAdd(Pan(st), PSub(g'.at[1], g.at[1]))
       ELSE IF HasHistory THEN InProgress(st') # Null ELSE st'.liveInk # <<>>]_vars

\* C20: while no pointer is down, a move event or an up event of a released
\* pointer changes neither scale, pan, the committed list nor the redo buffer,
\* whatever the tool
C20_IdleEventsIgnored ==
  [][(~Busy /\ ev' \in {"move", "lift", "commit"}) =>
       /\ Scale(st') = Scale(st) /\ Pan(st') = Pan(st)
       /\ HasHistory => (Committed(st') = Committed(st) /\ RedoBuffer(st') = RedoBuffer(st))]_vars

\* C21: gesture state is discarded when the last pointer lifts: the
\* single-pointer pen gesture that follows a finished pinch, visiting p1..pn,
\* n >= 2, commits exactly one stroke with those points
C21_PinchLeavesNoState ==
  (GestureEnded /\ g.clean /\ ~g.pinched /\ ~g.shift /\ g.bg0 /\ g.afterPinch
     /\ g.ts.tool = "pen" /\ Len(g.pts) >= 2)
    => /\ Len(Committed(st)) = Len(g.pre) + 1
       /\ ButLast(Committed(st)) = g.pre
       /\ Last(Committed(st)).points = g.pts

\* C22: scale and pan are changed only by pan and zoom gestures and by the
\* resets: undo, redo, clear, the tool and style setters, save, and the events
\* of drawing a stroke leave them as they are
C22_ViewOnlyByGestures ==
  [][(\/ ev' \in {"undo", "redo", "clear", "set", "save"}
      \/ /\ ev' \in {"down", "move", "lift", "commit"}
         /\ ~g'.pinched /\ ~g'.shift /\ st.tool \in {"pen", "eraser"}
         /\ rev = "dialog" => ~st.isPanning) =>
       (Scale(st') = Scale(st) /\ Pan(st') = Pan(st))]_vars

\* C23: with the pan tool, each move of a single held pointer adds to the pan
\* the distance the pointer moved in the viewport since the previous event,
\* whatever the scale, and no event of the gesture changes the scale, the
\* committed list or the redo buffer
C23_PanToolMovesView ==
  [][(ev' \in {"down", "move", "lift", "commit"} /\ st.tool \in PanTools /\ g'.ts.tool \in PanTools
        /\ ~g'.pinched /\ g'.clean /\ (Busy \/ ev' = "down")) =>
       /\ (ev' = "move" /\ g.vp # Null) => Pan(st') = PAdd(Pan(st), PSub(g'.vp[1], g.vp[1]))
       /\ Scale(st') = Scale(st)
       /\ HasHistory => (Committed(st') = Committed(st) /\ RedoBuffer(st') = RedoBuffer(st))]_vars

\* C24: a tap, a gesture of fewer than two points, leaves the history as it
\* was: the committed list and the redo buffer are those from before the
\* pointer went down, so a redo available before the tap is still available
C24_TapKeepsHistory ==
  (GestureEnded /\ g.clean /\ ~g.pinched /\ ~g.shift /\ g.bg0 /\ g.ts.tool \in {"pen", "eraser"}
     /\ Len(g.pts) = 1) =>
    /\ Committed(st) = g.pre
    /\ RedoBuffer(st) = g.preR

\* C25: whenever no stroke is in progress, the ink layer shows the replay of
\* the committed list under the current transform: exactly the committed
\* strokes, painted at the current scale and pan, so the ink of an undone
\* stroke is gone, that of a redone stroke is back, and after clear there is none
C25_InkIsCommitted ==
  (HasHistory /\ InProgress(st) = Null) =>
    /\ st.liveInk = <<>>
    /\ st.painted.strokes = Committed(st)
    /\ Committed(st) # <<>> => (st.painted.zoom = Scale(st) /\ st.painted.pan = Pan(st))

\* C26: the completion of a background load, the first or a later one,
\* leaves the ink as it is: none is removed and none is painted over
C26_LoadKeepsInk ==
  [][LET Ink(s) == IF HasHistory THEN <<s.painted, s.liveInk>> ELSE <<s.ink, s.liveInk>>
     IN ev' = "bg" => Ink(st') = Ink(st)]_vars

\* C27: when the last of the letterhead loads in flight has completed, in
\* whatever order they did, the background is painted under the current
\* scale and pan
C27_BackgroundCatchesUp ==
  (HasHistory /\ ev = "bg" /\ st.loads = {} /\ st.bgAt # Null) =>
    st.bgAt[1] = [zoom |-> Scale(st), pan |-> Pan(st)]

\* C28: the exported image does not depend on the view: whatever the scale
\* and pan, it is the image exported at scale 1 and pan (0,0), with the
\* background over the whole canvas and every committed stroke at its stored
\* points
C28_ExportIgnoresView ==
  (HasHistory /\ ev = "save" /\ env.out # Null /\ InProgress(st) = Null) =>
    /\ env.out[1].image.bg \in {Null, Some(Whole)}
    /\ env.out[1].image.ink = [i \in 1 .. Len(Committed(st)) |-> Committed(st)[i].points]

\* C29: the logical width and height of the workspace are those it was
\* created with: no operation changes them, a resize of the container or of
\* the window included
C29_SizeIsFixed ==
  [][st'.width = st.width /\ st'.height = st.height]_vars

\* C30: undo and redo conserve strokes: the committed list followed by the
\* redo buffer in reverse is the same sequence after an undo or a redo as
\* before, also when two requests are handled on one render
C30_UndoRedoConserve ==
  [][LET Reverse(q) == [i \in 1 .. Len(q) |-> q[Len(q) + 1 - i]]
         AllStrokes(s) == Committed(s) \o Reverse(RedoBuffer(s))
     IN ev' \in {"undo", "redo"} => AllStrokes(st') = AllStrokes(st)]_vars

====
